---- MODULE Spec2Model ----
(***************************************************************************)
(* Model of the ComfyUI Seed Tracker package: the persistence helpers of   *)
(* utils.py, the three node classes of node.py (SeedTracker,               *)
(* GlobalSeedTracker, SeedExporter) and the registry exported by           *)
(* __init__.py.                                                            *)
(*                                                                         *)
(* Representation.                                                         *)
(*  - File names and session ids are sequences of one-character strings,   *)
(*    because the code tests them with endswith / substring.  A path is    *)
(*    the file's name inside the output directory (os.path.join with the   *)
(*    one fixed output_dir).                                               *)
(*  - A Python dict that is iterated (a seeds mapping) is a sequence of    *)
(*    [key, value] records with unique keys, in insertion order.  A        *)
(*    top-level dict (a log document) is a TLA+ function from field name   *)
(*    to value; the empty dict is the function with the empty domain.      *)
(*  - The output directory is a function from file name to content; a      *)
(*    content is a JSON document, a CSV table or plain text.               *)
(***************************************************************************)
EXTENDS Integers, Sequences, FiniteSets, TLC

VARIABLES
    now,        \* the local clock in seconds, what datetime.now() reads
    tracker,    \* the SeedTracker instances: session_id, tracked_seeds
    global,     \* the GlobalSeedTracker instance: session_id, all_seeds, active
    files,      \* the output directory: file name -> content
    result,     \* the tuple returned by the last node call
    lastCall,   \* the last node call and its arguments
    log_files,  \* export_seeds' local list of selected log files (last call)
    calls,      \* history of the track_seed calls, in call order
    ops,        \* number of node calls made
    csvData,    \* input of the stand-alone export_to_csv run
    registry    \* the node types the host has loaded: type key -> display name

vars == <<now, tracker, global, files, result, lastCall, log_files, calls, ops, csvData, registry>>

----------------------------------------------------------------------------
(* Bounds of the model *)

MaxClock == 1          \* seconds the clock may advance
MaxOps == 3            \* node calls made by the host
MaxCsvEntries == 2     \* entries per label in the stand-alone export_to_csv run

Trackers == {1, 2}
\* Every string of the model is a sequence of string fragments, so that strings
\* compare with strings only; the empty string is the empty sequence.
Labels == {<<"a">>, <<"b">>}

\* The (seed, node_id, notes) inputs the host passes to track_seed.  Seeds are
\* recorded and never computed with (Python integers do not overflow), so two
\* values of the input range [0, 2^64 - 1] stand for all of them.
TrackInputs == {<<42, <<"a">>, <<>> >>, <<0, <<"a">>, <<"n">> >>, <<42, <<"b">>, <<"n">> >>}

----------------------------------------------------------------------------
(* Strings *)

Digit == <<"0", "1", "2", "3", "4", "5", "6", "7", "8", "9">>

\* str(n) of a non-negative integer: its decimal digits
RECURSIVE DecStr(_)
DecStr(n) == IF n < 10 THEN <<Digit[n + 1]>> ELSE DecStr(n \div 10) \o <<Digit[(n % 10) + 1]>>

\* s.endswith(suffix)
endswith(s, suffix) ==
    /\ Len(s) >= Len(suffix)
    /\ SubSeq(s, Len(s) - Len(suffix) + 1, Len(s)) = suffix

\* sub in s
contains(s, sub) ==
    \E i \in 1..(Len(s) - Len(sub) + 1) : SubSeq(s, i, i + Len(sub) - 1) = sub

s_seed_log == <<"s","e","e","d","_","l","o","g">>
s_seed_log_ == s_seed_log \o <<"_">>
s_global_seed_log_ == <<"g","l","o","b","a","l","_">> \o s_seed_log_
s_seed_export_ == <<"s","e","e","d","_","e","x","p","o","r","t","_">>
s_no_seeds_found_ == <<"n","o","_","s","e","e","d","s","_","f","o","u","n","d","_">>
s_unsupported_format_ ==
    <<"u","n","s","u","p","p","o","r","t","e","d","_","f","o","r","m","a","t","_">>
s_json == <<"j","s","o","n">>
s_csv == <<"c","s","v">>
s_txt == <<"t","x","t">>
s_xml == <<"x","m","l">>
dot == <<".">>

\* strftime("%Y%m%d_%H%M%S") of the clock: the day is fixed, the clock counts seconds
generate_session_id(t) ==
    <<"2","0","2","6","1","1","0","4","_","0","0","0","0">> \o
    (IF t < 10 THEN <<"0">> ELSE <<>>) \o DecStr(t)

\* strftime("%Y-%m-%d %H:%M:%S") of the clock
timestamp(t) ==
    <<"2","0","2","6","-","1","1","-","0","4"," ","0","0",":","0","0",":">> \o
    (IF t < 10 THEN <<"0">> ELSE <<>>) \o DecStr(t)

----------------------------------------------------------------------------
(* Python dicts in insertion order *)

EmptyDict == <<>>

Keys(d) == {d[i].key : i \in 1..Len(d)}

IndexOf(d, k) == CHOOSE i \in 1..Len(d) : d[i].key = k

\* d[k]
DictGet(d, k) == d[IndexOf(d, k)].value

\* d.get(k, []) for a mapping of lists
DictGetOrEmpty(d, k) == IF k \in Keys(d) THEN DictGet(d, k) ELSE <<>>

\* if k not in d: d[k] = []   followed by   d[k].extend(items)
DictExtend_dropping(d, k, items) ==
    IF k \in Keys(d)
    THEN [d EXCEPT ![IndexOf(d, k)].value = items]
    ELSE Append(d, [key |-> k, value |-> items])

DictExtend(d, k, items) ==
    IF k \in Keys(d)
    THEN [d EXCEPT ![IndexOf(d, k)].value = @ \o items]
    ELSE Append(d, [key |-> k, value |-> items])

\* total number of entries of a seeds mapping
RECURSIVE TotalEntries(_)
TotalEntries(d) == IF d = <<>> THEN 0 ELSE Len(d[1].value) + TotalEntries(Tail(d))

----------------------------------------------------------------------------
(* utils.py: persistence *)

NoDoc == [x \in {} |-> 0]        \* the empty dict {}

JsonFile(data) == [type |-> "json", data |-> data]
TextFile(text) == [type |-> "text", text |-> text]
CsvFile(rows) == [type |-> "csv", rows |-> rows]

\* open(path, 'w') + write: the file is created or overwritten as a whole
WriteFile(fs, path, content) ==
    [p \in (DOMAIN fs) \cup {path} |-> IF p = path THEN content ELSE fs[p]]

\* utils.py save_json: json.dump(data) over the whole file
save_json(fs, data, path) == WriteFile(fs, path, JsonFile(data))

\* utils.py load_json: {} for a missing file and for text that is no JSON
load_json(fs, path) ==
    IF path \notin DOMAIN fs THEN NoDoc
    ELSE IF fs[path].type = "json" THEN fs[path].data
    ELSE NoDoc

----------------------------------------------------------------------------
(* node.py: SeedTracker *)

SeedLogPath(sid) == s_seed_log_ \o sid \o dot \o s_json

\* save_seed_log: the log document of an instance, written to its session's file
save_seed_log_merging(fs, self, t) ==
    LET log_path == SeedLogPath(self.session_id)
        old == load_json(fs, log_path)
        kept == IF "seeds" \in DOMAIN old THEN old["seeds"] ELSE EmptyDict
        RECURSIVE Merge(_, _)
        Merge(acc, d) ==
            IF d = <<>> THEN acc
            ELSE Merge(DictExtend(acc, d[1].key, d[1].value), Tail(d))
        data == [session_id |-> self.session_id,
                 date |-> timestamp(t),
                 seeds |-> Merge(kept, self.tracked_seeds)]
    IN [files |-> save_json(fs, data, log_path), log_path |-> log_path]

save_seed_log(fs, self, t) ==
    LET log_path == SeedLogPath(self.session_id)
        data == [session_id |-> self.session_id,
                 date |-> timestamp(t),
                 seeds |-> self.tracked_seeds]
    IN [files |-> save_json(fs, data, log_path), log_path |-> log_path]

\* track_seed: append the entry under node_id, rewrite the log, return (seed, log_path)
track_seed(fs, self, t, seed, node_id, notes) ==
    LET seed_entry == [seed |-> seed, timestamp |-> timestamp(t), notes |-> notes]
        self2 == [self EXCEPT !.tracked_seeds = DictExtend(@, node_id, <<seed_entry>>)]
        saved == save_seed_log(fs, self2, t)
    IN [self |-> self2, files |-> saved.files, ret |-> <<seed, saved.log_path>>]

----------------------------------------------------------------------------
(* node.py: GlobalSeedTracker *)

GlobalLogPath(sid) == s_global_seed_log_ \o sid \o dot \o s_json

s_Active == <<"Active">>
s_Inactive == <<"Inactive">>
s_message == <<"Global seed tracking activated - using manual tracking mode">>
s_disabled == <<"Tracking disabled">>

\* start_tracking.  The try block imports the host's prepare_sampling and defines
\* a wrapper that is never installed (the assignment is commented out), and any
\* failure of the import is swallowed: it changes nothing either way.
start_tracking_writing(fs, self, t, enabled, include_metadata, session_name) ==
    LET session_id == IF session_name # <<>> THEN session_name ELSE self.session_id
        log_path == GlobalLogPath(session_id)
        self2 == [self EXCEPT !.active = enabled]
        data == [session_id |-> session_id,
                 date |-> timestamp(t),
                 status |-> IF self2.active THEN s_Active ELSE s_Inactive,
                 include_metadata |-> include_metadata,
                 message |-> s_message]
    IN [self |-> self2, files |-> save_json(fs, data, log_path),
        ret |-> IF enabled THEN <<log_path>> ELSE <<s_disabled>>]

start_tracking(fs, self, t, enabled, include_metadata, session_name) ==
    IF ~enabled
    THEN [self |-> [self EXCEPT !.active = FALSE], files |-> fs, ret |-> <<s_disabled>>]
    ELSE
    LET session_id == IF session_name # <<>> THEN session_name ELSE self.session_id
        log_path == GlobalLogPath(session_id)
        self2 == [self EXCEPT !.active = TRUE]
        data == [session_id |-> session_id,
                 date |-> timestamp(t),
                 status |-> IF self2.active THEN s_Active ELSE s_Inactive,
                 include_metadata |-> include_metadata,
                 message |-> s_message]
    IN [self |-> self2, files |-> save_json(fs, data, log_path), ret |-> <<log_path>>]

\* _record_seed: append under source, rewrite the instance's own global log
record_seed(fs, self, t, seed, source, notes) ==
    LET entry == [seed |-> seed, timestamp |-> timestamp(t), notes |-> notes]
        self2 == [self EXCEPT !.all_seeds = DictExtend(@, source, <<entry>>)]
        log_path == GlobalLogPath(self.session_id)
        data == [session_id |-> self.session_id,
                 date |-> timestamp(t),
                 status |-> s_Active,
                 seeds |-> self2.all_seeds]
    IN [self |-> self2, files |-> save_json(fs, data, log_path)]

----------------------------------------------------------------------------
(* utils.py: export_to_csv *)

CsvHeader == << <<"Node ID">>, <<"Seed">>, <<"Timestamp">>, <<"Notes">> >>

\* seed_entry.get(field, '') as csv.writer renders it: str() of an integer, a
\* string as it is, the empty string for a missing field
CsvCell(seed_entry, field) ==
    IF field \notin DOMAIN seed_entry THEN <<>>
    ELSE IF field = "seed" THEN DecStr(seed_entry[field])
    ELSE seed_entry[field]

CsvRow(node_id, seed_entry) ==
    <<node_id, CsvCell(seed_entry, "seed"), CsvCell(seed_entry, "timestamp"),
      CsvCell(seed_entry, "notes")>>

\* the rows of one label: for seed_entry in seed_list
RECURSIVE CsvRowsOfList(_, _)
CsvRowsOfList(node_id, seed_list) ==
    IF seed_list = <<>> THEN <<>>
    ELSE <<CsvRow(node_id, Head(seed_list))>> \o CsvRowsOfList(node_id, Tail(seed_list))

\* for node_id, seed_list in data['seeds'].items()
RECURSIVE CsvRowsOfDict(_)
CsvRowsOfDict(d) ==
    IF d = <<>> THEN <<>>
    ELSE CsvRowsOfList(d[1].key, d[1].value) \o CsvRowsOfDict(Tail(d))

\* export_to_csv, mutated to write one row per label (its first entry) only
export_to_csv_row_per_label(data) ==
    LET RECURSIVE Rows(_)
        Rows(d) == IF d = <<>> THEN <<>>
                   ELSE CsvRowsOfList(d[1].key, IF d[1].value = <<>> THEN <<>> ELSE <<Head(d[1].value)>>) \o Rows(Tail(d))
    IN <<CsvHeader>> \o (IF "seeds" \in DOMAIN data THEN Rows(data["seeds"]) ELSE <<>>)

\* export_to_csv: the rows written to the file
export_to_csv(data) ==
    <<CsvHeader>> \o (IF "seeds" \in DOMAIN data THEN CsvRowsOfDict(data["seeds"]) ELSE <<>>)

----------------------------------------------------------------------------
(* node.py: SeedExporter *)

\* the test of export_seeds (and of utils.find_seed_logs) on one directory entry
IsSelected(file, session_id) ==
    /\ endswith(file, dot \o s_json)
    /\ contains(file, s_seed_log)
    /\ (session_id = <<>> \/ contains(file, session_id))

\* for file in os.listdir(output_dir): ... log_files.append(...)
RECURSIVE SelectLogs(_, _)
SelectLogs(listing, session_id) ==
    IF listing = <<>> THEN <<>>
    ELSE (IF IsSelected(Head(listing), session_id) THEN <<Head(listing)>> ELSE <<>>)
         \o SelectLogs(Tail(listing), session_id)

\* for node, seeds in data["seeds"].items(): combined[node].extend(seeds),
\* mutated to replace a label's entries by the later file's
RECURSIVE MergeSeeds_replacing(_, _)
MergeSeeds_replacing(combined, seeds) ==
    IF seeds = <<>> THEN combined
    ELSE MergeSeeds_replacing(DictExtend_dropping(combined, seeds[1].key, seeds[1].value),
                              Tail(seeds))

RECURSIVE MergeSeeds(_, _)
MergeSeeds(combined, seeds) ==
    IF seeds = <<>> THEN combined
    ELSE MergeSeeds(DictExtend(combined, seeds[1].key, seeds[1].value), Tail(seeds))

\* for log_file in log_files: data = load_json(log_file); if "seeds" in data: ...
RECURSIVE CombineLogs(_, _, _)
CombineLogs(fs, logs, combined) ==
    IF logs = <<>> THEN combined
    ELSE LET data == load_json(fs, Head(logs))
         IN CombineLogs(fs, Tail(logs),
                        IF "seeds" \in DOMAIN data
                        THEN MergeSeeds(combined, data["seeds"])
                        ELSE combined)

\* the txt rendering of one label's entries, numbered from idx + 1
RECURSIVE TxtEntries(_, _)
TxtEntries(seeds, idx) ==
    IF seeds = <<>> THEN <<>>
    ELSE LET seed_data == Head(seeds)
         IN <<"  Seed #">> \o DecStr(idx + 1) \o <<": ">> \o DecStr(seed_data["seed"]) \o <<"\n">>
            \o <<"  Time: ">> \o seed_data["timestamp"] \o <<"\n">>
            \o (IF "notes" \in DOMAIN seed_data /\ seed_data["notes"] # <<>>
                THEN <<"  Notes: ">> \o seed_data["notes"] \o <<"\n">> ELSE <<>>)
            \o <<"\n">>
            \o TxtEntries(Tail(seeds), idx + 1)

RECURSIVE TxtNodes(_)
TxtNodes(d) ==
    IF d = <<>> THEN <<>>
    ELSE <<"Node: ">> \o d[1].key \o <<"\n">>
         \o <<"----------------------------------------", "\n">>
         \o TxtEntries(d[1].value, 0) \o <<"\n">>
         \o TxtNodes(Tail(d))

TxtExport(session_id, combined_data) ==
    <<"Seed Export for Session: ">> \o session_id \o <<"\n">>
    \o <<"Generated on: ">> \o combined_data["export_date"] \o <<"\n", "\n">>
    \o TxtNodes(combined_data["seeds"])

s_no_logs == <<"No seed logs found for session ">>
s_unsupported == <<"Unsupported export format: ">>

ExportPath(prefix, session_id, ext) == prefix \o session_id \o dot \o ext

\* export_seeds, mutated to render before looking whether any log was found
export_seeds_no_notice(fs, t, session_id, format, listing) ==
    LET selected == SelectLogs(listing, session_id)
        combined_data == [session_id |-> session_id, export_date |-> timestamp(t),
                          seeds |-> CombineLogs(fs, selected, EmptyDict)]
        export_path == IF format \in {s_json, s_csv, s_txt}
                       THEN ExportPath(s_seed_export_, session_id, format)
                       ELSE ExportPath(s_seed_export_, session_id, s_txt)
    IN [files |-> save_json(fs, combined_data, export_path),
        ret |-> <<export_path>>, log_files |-> selected]

\* export_seeds: select the logs of the listing, merge them, render the format
export_seeds(fs, t, session_id, format, listing) ==
    LET selected == SelectLogs(listing, session_id)
    IN IF selected = <<>>
       THEN LET export_path == ExportPath(s_no_seeds_found_, session_id, format)
            IN [files |-> WriteFile(fs, export_path, TextFile(s_no_logs \o session_id)),
                ret |-> <<export_path>>, log_files |-> selected]
       ELSE
       LET combined_data == [session_id |-> session_id, export_date |-> timestamp(t),
                             seeds |-> CombineLogs(fs, selected, EmptyDict)]
       IN IF format = s_json
          THEN LET export_path == ExportPath(s_seed_export_, session_id, s_json)
               IN [files |-> save_json(fs, combined_data, export_path),
                   ret |-> <<export_path>>, log_files |-> selected]
          ELSE IF format = s_csv
          THEN LET export_path == ExportPath(s_seed_export_, session_id, s_csv)
               IN [files |-> WriteFile(fs, export_path, CsvFile(export_to_csv(combined_data))),
                   ret |-> <<export_path>>, log_files |-> selected]
          ELSE IF format = s_txt
          THEN LET export_path == ExportPath(s_seed_export_, session_id, s_txt)
               IN [files |-> WriteFile(fs, export_path,
                                       TextFile(TxtExport(session_id, combined_data))),
                   ret |-> <<export_path>>, log_files |-> selected]
          ELSE LET export_path == ExportPath(s_unsupported_format_, session_id, s_txt)
               IN [files |-> WriteFile(fs, export_path, TextFile(s_unsupported \o format)),
                   ret |-> <<export_path>>, log_files |-> selected]

----------------------------------------------------------------------------
(* __init__.py / node.py: the registry handed to the host *)

NODE_CLASS_MAPPINGS ==
    [k \in {"SeedTracker", "GlobalSeedTracker", "SeedExporter"} |-> k]

NODE_DISPLAY_NAME_MAPPINGS ==
    [k \in {"SeedTracker", "GlobalSeedTracker", "SeedExporter"} |->
        CASE k = "SeedTracker" -> "Seed Tracker"
          [] k = "GlobalSeedTracker" -> "Global Seed Tracker"
          [] k = "SeedExporter" -> "Seed Exporter"]

\* __init__.py: the host imports the package and reads its two mappings
LoadPackage == [k \in DOMAIN NODE_CLASS_MAPPINGS |-> NODE_DISPLAY_NAME_MAPPINGS[k]]

----------------------------------------------------------------------------
(* The state machine: the host constructs nodes and calls their entry points *)

\* the (enabled, include_metadata, session_name) inputs passed to start_tracking
StartInputs == {<<FALSE, TRUE, <<>> >>, <<TRUE, TRUE, <<>> >>, <<TRUE, FALSE, <<"r","u","n">> >>}
\* the (session_id, format) inputs passed to export_seeds: the empty filter, a
\* session id and a filter that is itself part of every log's name, with the
\* three supported formats and one unsupported
ExportInputs ==
    {<< <<>>, s_json>>, << <<>>, s_csv>>,
     <<generate_session_id(0), s_json>>, <<generate_session_id(0), s_txt>>,
     <<generate_session_id(0), s_xml>>, <<s_seed_log, s_json>>}

s_sampler == <<"sampler">>
s_auto == <<"Auto-captured by GlobalSeedTracker">>

\* all orders of a finite set
RECURSIVE Perms(_)
Perms(S) ==
    IF S = {} THEN {<<>>}
    ELSE UNION {{<<x>> \o p : p \in Perms(S \ {x})} : x \in S}

RECURSIVE SetToSeq(_)
SetToSeq(S) ==
    IF S = {} THEN <<>>
    ELSE LET x == CHOOSE y \in S : TRUE IN <<x>> \o SetToSeq(S \ {x})

\* The orders os.listdir may give.  The entries export_seeds does not select have
\* no effect wherever they stand, so one position is taken for them (the end).
Listings(fs, session_id) ==
    LET sel == {f \in DOMAIN fs : IsSelected(f, session_id)}
    IN {p \o SetToSeq((DOMAIN fs) \ sel) : p \in Perms(sel)}

NoCall == [op |-> "none", self |-> 0, args |-> <<>>]

\* SeedTracker.__init__ at second t
ST_init(t) == [session_id |-> generate_session_id(t), tracked_seeds |-> EmptyDict]

\* GlobalSeedTracker.__init__ at second t
GST_init(t) == [session_id |-> generate_session_id(t), all_seeds |-> EmptyDict, active |-> FALSE]

\* The host has constructed the nodes of the graph: the first tracker and the
\* global tracker in second 0, the second tracker in the same second or the next.
\* ensure_output_dir has created the output directory, which holds no file yet.
Init ==
    /\ now \in {0, 1}
    /\ tracker = [i \in Trackers |-> IF i = 1 THEN ST_init(0) ELSE ST_init(now)]
    /\ global = GST_init(0)
    /\ files = NoDoc
    /\ result = <<>>
    /\ lastCall = NoCall
    /\ log_files = <<>>
    /\ calls = <<>>
    /\ ops = 0
    /\ csvData = NoDoc
    /\ registry = LoadPackage

\* a second of the local clock passes
Tick ==
    /\ now < MaxClock
    /\ now' = now + 1
    /\ UNCHANGED <<tracker, global, files, result, lastCall, log_files, calls, ops, csvData, registry>>

\* SeedTracker.track_seed
ST_track_seed(i, seed, node_id, notes) ==
    /\ "SeedTracker" \in DOMAIN registry
    /\ ops < MaxOps
    /\ ops' = ops + 1
    /\ LET r == track_seed(files, tracker[i], now, seed, node_id, notes)
       IN /\ tracker' = [tracker EXCEPT ![i] = r.self]
          /\ files' = r.files
          /\ result' = r.ret
    /\ lastCall' = [op |-> "track_seed", self |-> i, args |-> <<seed, node_id, notes>>]
    /\ calls' = Append(calls, [self |-> i, node_id |-> node_id,
                               entry |-> [seed |-> seed, timestamp |-> timestamp(now),
                                          notes |-> notes]])
    /\ UNCHANGED <<now, global, log_files, csvData, registry>>

\* GlobalSeedTracker.start_tracking
GST_start_tracking(enabled, include_metadata, session_name) ==
    /\ "GlobalSeedTracker" \in DOMAIN registry
    /\ ops < MaxOps
    /\ ops' = ops + 1
    /\ LET r == start_tracking(files, global, now, enabled, include_metadata, session_name)
       IN /\ global' = r.self
          /\ files' = r.files
          /\ result' = r.ret
    /\ lastCall' = [op |-> "start_tracking", self |-> 0,
                    args |-> <<enabled, include_metadata, session_name>>]
    /\ UNCHANGED <<now, tracker, log_files, calls, csvData, registry>>

\* GlobalSeedTracker._record_seed, as the sampling hook of start_tracking calls it
\* (when self.active).  The shipped code defines the hook and leaves it
\* uninstalled, so this step stands for a host that installs it: it is the only
\* way all_seeds is ever filled.
GST_record_seed(seed) ==
    /\ global.active
    /\ ops < MaxOps
    /\ ops' = ops + 1
    /\ LET r == record_seed(files, global, now, seed, s_sampler, s_auto)
       IN /\ global' = r.self
          /\ files' = r.files
    /\ result' = <<>>
    /\ lastCall' = [op |-> "_record_seed", self |-> 0, args |-> <<seed, s_sampler, s_auto>>]
    /\ UNCHANGED <<now, tracker, log_files, calls, csvData, registry>>

\* SeedExporter.export_seeds
SE_export_seeds(session_id, format) ==
    /\ "SeedExporter" \in DOMAIN registry
    /\ ops < MaxOps
    /\ \E listing \in Listings(files, session_id) :
         LET r == export_seeds(files, now, session_id, format, listing)
         IN /\ files' = r.files
            /\ result' = r.ret
            /\ log_files' = r.log_files
    /\ lastCall' = [op |-> "export_seeds", self |-> 0, args |-> <<session_id, format>>]
    /\ ops' = ops + 1
    /\ UNCHANGED <<now, tracker, global, calls, csvData, registry>>

Next ==
    \/ Tick
    \/ \E i \in Trackers, in \in TrackInputs : ST_track_seed(i, in[1], in[2], in[3])
    \/ \E in \in StartInputs : GST_start_tracking(in[1], in[2], in[3])
    \/ GST_record_seed(42)
    \/ \E in \in ExportInputs : SE_export_seeds(in[1], in[2])

Spec == Init /\ [][Next]_vars

----------------------------------------------------------------------------
(* export_to_csv on its own: the inputs are drawn from documents whose entries *)
(* may lack any of their fields                                               *)

CsvPath == <<"o","u","t",".","c","s","v">>

\* entries with all fields, without the seed, without the notes, without any field
CsvEntries ==
    {[seed |-> 42, timestamp |-> timestamp(0), notes |-> <<"n">>],
     [timestamp |-> timestamp(0), notes |-> <<>>],
     [seed |-> 0, timestamp |-> timestamp(1)],
     NoDoc}

CsvLists == UNION {[1..n -> CsvEntries] : n \in 0..MaxCsvEntries}

CsvDicts ==
    {<<>>}
    \cup {<<[key |-> k, value |-> l]>> : k \in Labels, l \in CsvLists}
    \cup {<<[key |-> k[1], value |-> l1], [key |-> k[2], value |-> l2]>> :
            k \in {x \in Labels \X Labels : x[1] # x[2]}, l1 \in CsvLists, l2 \in CsvLists}

CsvInputs ==
    {NoDoc} \cup {[session_id |-> <<>>, export_date |-> timestamp(0), seeds |-> d] : d \in CsvDicts}

InitCsv ==
    /\ now = 0
    /\ tracker = [i \in Trackers |-> ST_init(0)]
    /\ global = GST_init(0)
    /\ files = NoDoc
    /\ result = <<>>
    /\ lastCall = NoCall
    /\ log_files = <<>>
    /\ calls = <<>>
    /\ ops = 0
    /\ csvData \in CsvInputs
    /\ registry = LoadPackage

\* utils.export_to_csv(csvData, CsvPath)
CsvExport ==
    /\ CsvPath \notin DOMAIN files
    /\ files' = WriteFile(files, CsvPath, CsvFile(export_to_csv(csvData)))
    /\ UNCHANGED <<now, tracker, global, result, lastCall, log_files, calls, ops, csvData, registry>>

NextCsv == CsvExport

SpecCsv == InitCsv /\ [][NextCsv]_vars

----------------------------------------------------------------------------
(* Properties *)

\* the entries of the history tracked by instance i under label, in call order
RECURSIVE EntriesUnder(_, _, _)
EntriesUnder(h, i, label) ==
    IF h = <<>> THEN <<>>
    ELSE (IF Head(h).self = i /\ Head(h).node_id = label THEN <<Head(h).entry>> ELSE <<>>)
         \o EntriesUnder(Tail(h), i, label)

CallsBy(i) == {n \in 1..Len(calls) : calls[n].self = i}

SeedLogOf(i) == load_json(files, SeedLogPath(tracker[i].session_id))

\* C1: after a track_seed call of an instance, the session's log file holds a seeds
\* mapping equal to the instance's in-memory mapping, whose keys are the labels
\* tracked on the instance and in which each label maps to exactly the entries
\* tracked under it, in call order.
C1_LogEqualsTracked ==
    lastCall.op = "track_seed" =>
        LET i == lastCall.self
            doc == SeedLogOf(i)
        IN /\ "seeds" \in DOMAIN doc
           /\ doc["seeds"] = tracker[i].tracked_seeds
           /\ Keys(doc["seeds"]) = {calls[n].node_id : n \in CallsBy(i)}
           /\ \A label \in Labels :
                DictGetOrEmpty(doc["seeds"], label) = EntriesUnder(calls, i, label)

\* the same seed was tracked twice under one label: the log holds both entries
C1_Witness ==
    /\ lastCall.op = "track_seed"
    /\ LET doc == SeedLogOf(lastCall.self)
           under == DictGetOrEmpty(doc["seeds"], lastCall.args[2])
       IN /\ Len(under) = 2
          /\ under[1].seed = lastCall.args[1]
          /\ under[2].seed = lastCall.args[1]

\* C2 as stated: track_seed returns three outputs, the seed, the bundle
\* {node_id: the entries recorded so far under node_id} and the log path.
C2_ReturnsBundle ==
    lastCall.op = "track_seed" =>
        LET i == lastCall.self
            node_id == lastCall.args[2]
        IN /\ Len(result) = 3
           /\ result[1] = lastCall.args[1]
           /\ result[2] = <<[key |-> node_id,
                            value |-> DictGet(tracker[i].tracked_seeds, node_id)]>>
           /\ result[3] = SeedLogPath(tracker[i].session_id)

IsDisabledCall(c) == c.op = "start_tracking" /\ c.args[1] = FALSE

\* C3: a start_tracking call with enabled = false marks the tracker inactive,
\* leaves all_seeds as it was and writes or changes no file.
C3_DisabledIsFrame ==
    [][(ops' = ops + 1 /\ IsDisabledCall(lastCall')) =>
         /\ global'.active = FALSE
         /\ global'.all_seeds = global.all_seeds
         /\ files' = files]_vars

\* a disabled call made on a tracker that holds seeds, with files on disk
C3_Witness ==
    /\ IsDisabledCall(lastCall)
    /\ ~global.active
    /\ global.all_seeds # EmptyDict
    /\ GlobalLogPath(global.session_id) \in DOMAIN files

\* C4 as stated: the log written by an enabled call holds the merged seeds mapping
\* and total_seeds_tracked, the sum of the lengths of its per-label sequences.
C4_TotalSeedsTracked ==
    (lastCall.op = "start_tracking" /\ lastCall.args[1] = TRUE) =>
        LET doc == load_json(files, result[1])
        IN /\ "seeds" \in DOMAIN doc
           /\ "total_seeds_tracked" \in DOMAIN doc
           /\ doc["total_seeds_tracked"] = TotalEntries(doc["seeds"])

\* C5 as stated: the package provides a SeedTrackerBatch node (the host finds
\* the type among those the package registers).
C5_BatchRegistered ==
    /\ "SeedTrackerBatch" \in DOMAIN registry
    /\ registry["SeedTrackerBatch"] = "Seed Tracker (Batch)"

IsExportCall(c) == c.op = "export_seeds"

\* the directory entries a session filter matches
Matching(fs, session_id) == {f \in DOMAIN fs : IsSelected(f, session_id)}

AllLabels == Labels \cup {s_sampler}

SeedsOf(fs, f) ==
    LET data == load_json(fs, f) IN IF "seeds" \in DOMAIN data THEN data["seeds"] ELSE EmptyDict

\* the entries of label in the listed files, file after file
RECURSIVE ConcatUnder(_, _, _)
ConcatUnder(fs, logs, label) ==
    IF logs = <<>> THEN <<>>
    ELSE DictGetOrEmpty(SeedsOf(fs, Head(logs)), label) \o ConcatUnder(fs, Tail(logs), label)

IsJsonExport(c) == IsExportCall(c) /\ c.args[2] = s_json

RECURSIVE Offset(_, _)
Offset(d, k) == IF k <= 1 THEN 0 ELSE Offset(d, k - 1) + Len(d[k - 1].value)

FieldOrEmpty(e, field) == IF field \in DOMAIN e THEN e[field] ELSE <<>>

\* C8: export_to_csv writes the header row [Node ID, Seed, Timestamp, Notes] and
\* then one row per entry of data.seeds, label after label, with the columns
\* label, seed, timestamp, notes and the empty string for a missing field; the
\* number of rows is 1 plus the number of entries.
C8_CsvRows ==
    CsvPath \in DOMAIN files =>
        LET rows == files[CsvPath].rows
            d == IF "seeds" \in DOMAIN csvData THEN csvData["seeds"] ELSE EmptyDict
        IN /\ Len(rows) = 1 + TotalEntries(d)
           /\ rows[1] = << <<"Node ID">>, <<"Seed">>, <<"Timestamp">>, <<"Notes">> >>
           /\ \A k \in 1..Len(d) : \A j \in 1..Len(d[k].value) :
                LET e == d[k].value[j]
                    row == rows[1 + Offset(d, k) + j]
                IN /\ Len(row) = 4
                   /\ row[1] = d[k].key
                   /\ row[2] = (IF "seed" \in DOMAIN e THEN DecStr(e["seed"]) ELSE <<>>)
                   /\ row[3] = FieldOrEmpty(e, "timestamp")
                   /\ row[4] = FieldOrEmpty(e, "notes")

\* one label with two entries, one of them without its seed: three rows
C8_Witness ==
    /\ CsvPath \in DOMAIN files
    /\ Len(csvData["seeds"]) = 1
    /\ Len(csvData["seeds"][1].value) = 2
    /\ "seed" \notin DOMAIN csvData["seeds"][1].value[2]
    /\ Len(files[CsvPath].rows) = 3
    /\ files[CsvPath].rows[3][2] = <<>>

SameSession == tracker[1].session_id = tracker[2].session_id

startswith(s, prefix) == Len(s) >= Len(prefix) /\ SubSeq(s, 1, Len(prefix)) = prefix

\* a file export_seeds writes
IsArtifact(f) ==
    \/ startswith(f, s_seed_export_)
    \/ startswith(f, s_no_seeds_found_)
    \/ startswith(f, s_unsupported_format_)

\* C10 as stated: the files export_seeds selects as input logs exclude every
\* seed_export_, no_seeds_found_ and unsupported_format_ file.
C10_NoArtifactSelected ==
    IsExportCall(lastCall) => \A n \in 1..Len(log_files) : ~IsArtifact(log_files[n])

====
